---- MODULE Spec2Model ----
(***************************************************************************)
(* A model of pubmed_pharma_finder.py: the affiliation classifier, the     *)
(* per-record extractor, and the search / batched fetch / export run of    *)
(* main.  Text is modelled as sequences of one-character strings so that   *)
(* substring tests, lower-casing, joins and the regular expressions are    *)
(* computed, not assumed.                                                  *)
(***************************************************************************)
EXTENDS Integers, Sequences, FiniteSets, TLC

\* ------------------------------------------------------------------ text

\* Python's None (an element without text, a function falling off its end).
None == <<"<None>">>

\* find() returning None: the element is not there.
Absent == <<"<Absent>">>

UpperCase ==
  <<"A","B","C","D","E","F","G","H","I","J","K","L","M","N","O","P","Q","R","S","T","U","V","W","X","Y","Z">>

LowerCase ==
  <<"a","b","c","d","e","f","g","h","i","j","k","l","m","n","o","p","q","r","s","t","u","v","w","x","y","z">>

Digits == {"0","1","2","3","4","5","6","7","8","9"}

\* U+0131, LATIN SMALL LETTER DOTLESS I: the one non-ASCII letter modelled.
\* str.lower() leaves it alone, while a pattern compiled with re.IGNORECASE
\* lets it match "i", "I" and [A-Za-z].
DotlessI == "<U+0131>"

Range(f) == { f[x] : x \in DOMAIN f }

\* [A-Za-z]
IsAlpha(c) == c \in Range(UpperCase) \cup Range(LowerCase)

\* [A-Za-z] under re.IGNORECASE
IsAlphaIgnoreCase(c) == IsAlpha(c) \/ c = DotlessI

\* \w
IsWord(c) == IsAlpha(c) \/ c \in Digits \/ c = "_" \/ c = DotlessI

\* \s
IsSpace(c) == c \in {" ", "\t", "\n", "\r", "\f"}

\* str.lower() of one character
LowerChar(c) ==
  IF c \in Range(UpperCase)
    THEN LowerCase[CHOOSE i \in DOMAIN UpperCase : UpperCase[i] = c]
    ELSE c

\* A literal pattern character against a text character under re.IGNORECASE
IgnoreCaseEq(t, p) ==
  \/ LowerChar(t) = LowerChar(p)
  \/ t = DotlessI /\ LowerChar(p) = "i"

\* Variant: the text is not lower-cased before the keyword tests.
LowerOmitted(s) == s

\* str.lower()
Lower(s) == [ i \in DOMAIN s |-> LowerChar(s[i]) ]

\* Python's "keyword in text"
Contains(keyword, text) ==
  \E i \in 1..(Len(text) - Len(keyword) + 1) :
    \A n \in 1..Len(keyword) : text[i + n - 1] = keyword[n]

\* \b between text[i-1] and text[i]
WordBoundary(text, i) ==
  LET before == i - 1 >= 1 /\ i - 1 <= Len(text) /\ IsWord(text[i - 1])
      after  == i >= 1 /\ i <= Len(text) /\ IsWord(text[i])
  IN  before # after

\* ------------------------------------------------------------ classifier

ACADEMIC_KEYWORDS ==
  << <<"u","n","i","v","e","r","s","i","t","y">>,
     <<"c","o","l","l","e","g","e">>,
     <<"i","n","s","t","i","t","u","t","e">>,
     <<"s","c","h","o","o","l">>,
     <<"c","e","n","t","e","r"," ","f","o","r">>,
     <<"c","e","n","t","r","e"," ","f","o","r">>,
     <<"h","o","s","p","i","t","a","l">>,
     <<"m","e","d","i","c","a","l"," ","c","e","n","t","e","r">>,
     <<"m","e","d","i","c","a","l"," ","c","e","n","t","r","e">>,
     <<"c","l","i","n","i","c">>,
     <<"f","o","u","n","d","a","t","i","o","n">>,
     <<"a","c","a","d","e","m","y">>,
     <<"n","a","t","i","o","n","a","l">>,
     <<"f","e","d","e","r","a","l">>,
     <<"m","i","n","i","s","t","r","y">>,
     <<"d","e","p","a","r","t","m","e","n","t"," ","o","f"," ","h","e","a","l","t","h">> >>

COMPANY_KEYWORDS ==
  << <<"i","n","c">>,
     <<"l","l","c">>,
     <<"l","t","d">>,
     <<"l","i","m","i","t","e","d">>,
     <<"c","o","r","p">>,
     <<"c","o","r","p","o","r","a","t","i","o","n">>,
     <<"p","h","a","r","m","a","c","e","u","t","i","c","a","l","s">>,
     <<"p","h","a","r","m","a","c","e","u","t","i","c","a","l">>,
     <<"p","h","a","r","m","a">>,
     <<"b","i","o","t","e","c","h">>,
     <<"b","i","o","s","c","i","e","n","c","e","s">>,
     <<"t","h","e","r","a","p","e","u","t","i","c","s">>,
     <<"l","a","b","o","r","a","t","o","r","i","e","s">>,
     <<"l","a","b","s">>,
     <<"b","i","o","p","h","a","r","m">>,
     <<"b","i","o","m","e","d">>,
     <<"b","i","o","p","h","a","r","m","a">>,
     <<"b","i","o","-","p","h","a","r","m">>,
     <<"b","i","o","-","t","e","c","h">>,
     <<"l","i","f","e"," ","s","c","i","e","n","c","e","s">> >>

\* The six company-naming patterns: \b[A-Za-z]+ then an optional comma
\* (comma = TRUE), \s+, and the suffix.  The trailing \.? of the Inc, Ltd
\* and Corp patterns is optional and cannot change whether a match exists.
company_patterns ==
  << [comma |-> TRUE,  suffix |-> <<"I","n","c">>],
     [comma |-> TRUE,  suffix |-> <<"L","t","d">>],
     [comma |-> TRUE,  suffix |-> <<"L","L","C">>],
     [comma |-> TRUE,  suffix |-> <<"C","o","r","p">>],
     [comma |-> FALSE, suffix |-> <<"P","h","a","r","m","a","c","e","u","t","i","c","a","l","s">>],
     [comma |-> FALSE, suffix |-> <<"B","i","o","t","e","c","h">>] >>

\* re.search(pattern, text, re.IGNORECASE) is not None: the word is
\* text[i..j], the blanks are text[k0..k-1], the suffix starts at k.
PatternSearch(pattern, text) ==
  \E i \in 1..Len(text) : \E j \in i..Len(text) :
    /\ WordBoundary(text, i)
    /\ \A x \in i..j : IsAlphaIgnoreCase(text[x])
    /\ \E k0 \in {j + 1} \cup (IF pattern.comma /\ j + 1 <= Len(text) /\ text[j + 1] = ","
                                 THEN {j + 2} ELSE {}) :
         \E k \in (k0 + 1)..Len(text) :
           /\ \A x \in k0..(k - 1) : IsSpace(text[x])
           /\ k + Len(pattern.suffix) - 1 <= Len(text)
           /\ \A n \in 1..Len(pattern.suffix) :
                IgnoreCaseEq(text[k + n - 1], pattern.suffix[n])

\* Variant: the company keywords are tested before the academic ones.
ClassifyTierCompanyFirst(affiliation) ==
  IF affiliation = None \/ affiliation = <<>> THEN "empty"
  ELSE LET lowered == Lower(affiliation)
       IN  IF \E c \in DOMAIN COMPANY_KEYWORDS : Contains(COMPANY_KEYWORDS[c], lowered)
             THEN "keyword"
           ELSE IF \E a \in DOMAIN ACADEMIC_KEYWORDS : Contains(ACADEMIC_KEYWORDS[a], lowered)
             THEN "academic"
           ELSE IF \E p \in DOMAIN company_patterns : PatternSearch(company_patterns[p], lowered)
             THEN "pattern"
           ELSE "nomatch"

\* The return statement _is_company_affiliation leaves by.
ClassifyTier(affiliation) ==
  IF affiliation = None \/ affiliation = <<>> THEN "empty"
  ELSE LET lowered == Lower(affiliation)
       IN  IF \E a \in DOMAIN ACADEMIC_KEYWORDS : Contains(ACADEMIC_KEYWORDS[a], lowered)
             THEN "academic"
           ELSE IF \E c \in DOMAIN COMPANY_KEYWORDS : Contains(COMPANY_KEYWORDS[c], lowered)
             THEN "keyword"
           ELSE IF \E p \in DOMAIN company_patterns : PatternSearch(company_patterns[p], lowered)
             THEN "pattern"
           ELSE "nomatch"

_is_company_affiliation(affiliation) ==
  ClassifyTier(affiliation) \in {"keyword", "pattern"}

\* ---------------------------------------------------------- e-mail search

\* [A-Za-z0-9._%+-]
IsEmailLocal(c) == IsAlpha(c) \/ c \in Digits \/ c \in {".", "_", "%", "+", "-"}

\* [A-Za-z0-9.-]
IsEmailDomain(c) == IsAlpha(c) \/ c \in Digits \/ c \in {".", "-"}

\* [A-Z|a-z]
IsEmailTld(c) == IsAlpha(c) \/ c = "|"

Max(S) == CHOOSE x \in S : \A y \in S : y <= x

Min(S) == CHOOSE x \in S : \A y \in S : x <= y

\* The e-mail pattern is \b[A-Za-z0-9._%+-]+@[A-Za-z0-9.-]+\.[A-Z|a-z]{2,}\b.
\* Where a match whose "@" is at position a starts: the first word boundary
\* from which only local-part characters lead up to the "@"; 0 if none.
EmailStart(text, a) ==
  LET starts == { i \in 1..(a - 1) :
                    /\ WordBoundary(text, i)
                    /\ \A x \in i..(a - 1) : IsEmailLocal(text[x]) }
  IN  IF starts = {} THEN 0 ELSE Min(starts)

\* Where a match whose "@" is at position a ends; 0 if none.  The domain
\* part is greedy: of the dots inside the run of domain characters the last
\* one that is followed by a top-level part wins, and that part (two or more
\* characters, ending at a word boundary) is as long as it can be.
EmailEnd(text, a) ==
  LET n == Len(text)
      domain_end == Max({a} \cup { r \in (a + 1)..n :
                                     \A x \in (a + 1)..r : IsEmailDomain(text[x]) })
      TldEnds(d) == { e \in (d + 3)..n :
                        /\ \A x \in (d + 2)..e : IsEmailTld(text[x])
                        /\ WordBoundary(text, e + 1) }
      dots == { d \in (a + 1)..(domain_end - 1) : text[d + 1] = "." /\ TldEnds(d) # {} }
  IN  IF dots = {} THEN 0 ELSE Max(TldEnds(Max(dots)))

\* re.search(e-mail pattern, text): group(0) of the leftmost match, or None.
EmailSearch(text) ==
  LET hits == { a \in 1..Len(text) :
                  text[a] = "@" /\ EmailStart(text, a) # 0 /\ EmailEnd(text, a) # 0 }
  IN  IF hits = {} THEN None
      ELSE LET a == Min(hits)
           IN  SubSeq(text, EmailStart(text, a), EmailEnd(text, a))

\* ------------------------------------------------------------- extractor

\* How an f-string or print shows a text that may be None.
Str(x) == IF x = None THEN <<"N","o","n","e">> ELSE x

\* separator.join(items); a None item makes join raise TypeError, which the
\* callers test for before joining.
RECURSIVE Join(_, _)
Join(separator, items) ==
  IF items = <<>> THEN <<>>
  ELSE IF Len(items) = 1 THEN items[1]
  ELSE items[1] \o separator \o Join(separator, Tail(items))

Semicolon == <<";", " ">>

UnknownTitle == <<"U","n","k","n","o","w","n"," ","T","i","t","l","e">>

UnknownDate == <<"U","n","k","n","o","w","n"," ","D","a","t","e">>

\* title_elem.text if title_elem is not None and title_elem.text else ...
Title(article_elem) ==
  IF article_elem.title # Absent /\ article_elem.title # None
    THEN article_elem.title
    ELSE UnknownTitle

\* x.text if x is not None else ""
TextOrEmpty(elem) == IF elem # Absent THEN elem ELSE <<>>

\* The publication date at the best precision the record offers.
PubDate(article_elem) ==
  IF ~article_elem.pub_date.found THEN UnknownDate
  ELSE LET year_text  == TextOrEmpty(article_elem.pub_date.Year)
           month_text == TextOrEmpty(article_elem.pub_date.Month)
           day_text   == TextOrEmpty(article_elem.pub_date.Day)
           Truthy(t)  == t # None /\ t # <<>>
       IN  IF Truthy(year_text)
             THEN IF Truthy(month_text)
                    THEN IF Truthy(day_text)
                           THEN year_text \o <<"-">> \o month_text \o <<"-">> \o day_text
                           ELSE year_text \o <<"-">> \o month_text
                    ELSE year_text
             ELSE UnknownDate

\* Variant: the display name puts the last name first.
AuthorNameLastFirst(author) ==
  IF author.ForeName # Absent
    THEN Str(author.LastName) \o <<" ">> \o Str(author.ForeName)
    ELSE author.LastName

\* The author's display name; None when the LastName element has no text and
\* there is no ForeName.  Asked only of authors with a LastName element.
AuthorName(author) ==
  IF author.ForeName # Absent
    THEN Str(author.ForeName) \o <<" ">> \o Str(author.LastName)
    ELSE author.LastName

IsCompanyText(aff) == _is_company_affiliation(aff)

HasText(aff) == aff # None /\ aff # <<>>

\* The affiliation texts collected for one author: those with text.
Affiliations(author) == SelectSeq(author.affiliations, HasText)

\* Variant: a later match replaces the recorded e-mail.
RECURSIVE ScanEmailLastWins(_, _)
ScanEmailLastWins(corresponding_email, affiliations) ==
  IF affiliations = <<>> THEN corresponding_email
  ELSE LET email_match == EmailSearch(Head(affiliations))
       IN  ScanEmailLastWins(IF email_match # None THEN email_match ELSE corresponding_email,
                             Tail(affiliations))

\* The e-mail after scanning one author's affiliations in order: a match is
\* taken only while none is recorded yet.
RECURSIVE ScanEmail(_, _)
ScanEmail(corresponding_email, affiliations) ==
  IF affiliations = <<>> THEN corresponding_email
  ELSE LET email_match == EmailSearch(Head(affiliations))
       IN  ScanEmail(IF email_match # None /\ corresponding_email = <<>>
                       THEN email_match ELSE corresponding_email,
                     Tail(affiliations))

\* Variant: an author counts as a company author only if all of their
\* affiliations classify as company.
AuthorStepAll(acc, author) ==
  IF author.LastName = Absent THEN acc
  ELSE LET affiliations == Affiliations(author)
           email == ScanEmail(acc.corresponding_email, affiliations)
           is_company_author ==
             /\ affiliations # <<>>
             /\ \A n \in DOMAIN affiliations : _is_company_affiliation(affiliations[n])
       IN  IF is_company_author
             THEN [ pharma_authors |-> Append(acc.pharma_authors, AuthorName(author)),
                    company_affiliations |->
                      acc.company_affiliations \o SelectSeq(affiliations, IsCompanyText),
                    corresponding_email |-> email,
                    has_pharma_author |-> TRUE ]
             ELSE [ acc EXCEPT !.corresponding_email = email ]

\* One turn of the loop over the authors.
AuthorStep(acc, author) ==
  IF author.LastName = Absent THEN acc
  ELSE LET affiliations == Affiliations(author)
           email == ScanEmail(acc.corresponding_email, affiliations)
           is_company_author ==
             \E n \in DOMAIN affiliations : _is_company_affiliation(affiliations[n])
       IN  IF is_company_author
             THEN [ pharma_authors |-> Append(acc.pharma_authors, AuthorName(author)),
                    company_affiliations |->
                      acc.company_affiliations \o SelectSeq(affiliations, IsCompanyText),
                    corresponding_email |-> email,
                    has_pharma_author |-> TRUE ]
             ELSE [ acc EXCEPT !.corresponding_email = email ]

RECURSIVE AuthorLoop(_, _)
AuthorLoop(acc, authors) ==
  IF authors = <<>> THEN acc
  ELSE AuthorLoop(AuthorStep(acc, Head(authors)), Tail(authors))

LoopStart ==
  [ pharma_authors |-> <<>>, company_affiliations |-> <<>>,
    corresponding_email |-> <<>>, has_pharma_author |-> FALSE ]

\* The orders iterating set(company_affiliations) may yield its members
\* in: each member once, in an order the language does not fix.
SetOrders(items) ==
  LET S == Range(items)
  IN  { f \in [1..Cardinality(S) -> S] : Range(f) = S }

\* _parse_article returning None.
NoData == [none |-> TRUE]

\* What _parse_article does once the loop over the authors has left acc:
\* None without a company author, the dictionary otherwise; joining the names
\* raises if one of them is None, and the handler returns None.
AfterLoop(article_elem, acc, set_order) ==
  IF ~acc.has_pharma_author THEN [kind |-> "no_company", data |-> NoData]
  ELSE IF \E n \in DOMAIN acc.pharma_authors : acc.pharma_authors[n] = None
    THEN [kind |-> "raised", data |-> NoData]
  ELSE [ kind |-> "result",
         data |-> [ pmid |-> article_elem.pmid,
                    title |-> Title(article_elem),
                    pub_date |-> PubDate(article_elem),
                    pharma_authors |-> Join(Semicolon, acc.pharma_authors),
                    company_affiliations |-> Join(Semicolon, set_order),
                    corresponding_email |-> acc.corresponding_email,
                    has_pharma_author |-> acc.has_pharma_author ] ]

\* How _parse_article ends for a record, and what it returns; set_order is
\* the order set(company_affiliations) is iterated in.
ParseOutcome(article_elem, set_order) ==
  IF article_elem.pmid = Absent THEN [kind |-> "no_pmid", data |-> NoData]
  ELSE AfterLoop(article_elem, AuthorLoop(LoopStart, article_elem.authors), set_order)

_parse_article(article_elem, set_order) == ParseOutcome(article_elem, set_order).data

\* company_affiliations as the loop over a record's authors leaves it.
CompanyAffiliations(article_elem) ==
  AuthorLoop(LoopStart, article_elem.authors).company_affiliations

\* ------------------------------------------------------------------ state

VARIABLES
  \* the classifier called on its own
  affiliation,      \* the argument of the call
  is_company,       \* what the call returned
  tier,             \* the return statement it left by; "pending" before it
  calls,            \* calls made so far
  \* the extractor called on its own
  article_elem,     \* the raw record
  article_data,     \* what _parse_article returned
  parse_kind,       \* how it ended; "pending" before the call
  \* the run of main
  pc,               \* where the run is
  retries,          \* self.retries
  attempt,          \* the retry loop's attempt, from 0
  pmids,            \* what search returned
  offset,           \* the batch loop's offset into pmid_list
  articles,         \* the PubmedArticle elements of the response being read
  article_n,        \* the next of them to parse, from 1
  results,          \* fetch_article_details' result list
  exported,         \* what export_to_csv wrote
  log               \* history: per finished batch, its offset, outcome and requests

classify_vars == <<affiliation, is_company, tier, calls>>

parse_vars == <<article_elem, article_data, parse_kind>>

main_vars == <<pc, retries, attempt, pmids, offset, articles, article_n, results, exported, log>>

vars == <<classify_vars, parse_vars, main_vars>>

\* --------------------------------------------------------- sample records



AcmeIncMail == <<"A","c","m","e"," ","I","n","c"," ","j","@","a",".","i","o">>

StateUniversity == <<"S","t","a","t","e"," ","U","n","i","v","e","r","s","i","t","y">>

UniversityMail == <<"U","n","i","v","e","r","s","i","t","y"," ","u","@","s",".","e","d","u">>

ZedLabs == <<"Z","e","d"," ","L","a","b","s">>

JaneDoe ==
  [ForeName |-> <<"J","a","n","e">>, LastName |-> <<"D","o","e">>, affiliations |-> <<AcmeIncMail>>]

\* Academic, with an e-mail address.
JohnRoe ==
  [ForeName |-> <<"J","o","h","n">>, LastName |-> <<"R","o","e">>, affiliations |-> <<UniversityMail>>]

\* One academic and one company affiliation, no ForeName.
Lee ==
  [ForeName |-> Absent, LastName |-> <<"L","e","e">>, affiliations |-> <<StateUniversity, ZedLabs>>]

\* A company author without a LastName element, with an e-mail address.
Nameless ==
  [ForeName |-> <<"A","n","n">>, LastName |-> Absent, affiliations |-> <<AcmeIncMail>>]

\* A company author whose LastName element has no text, and no ForeName.
EmptyLast ==
  [ForeName |-> Absent, LastName |-> None, affiliations |-> <<ZedLabs>>]

\* A ForeName element without text and an affiliation element without text.
Kim ==
  [ForeName |-> None, LastName |-> <<"K","i","m">>, affiliations |-> <<None, ZedLabs>>]

AuthorPool == { JaneDoe, JohnRoe, Lee, Nameless, EmptyLast, Kim }

MaxAuthors == 2

RECURSIVE AuthorLists(_)
AuthorLists(n) ==
  IF n = 0 THEN { <<>> }
  ELSE LET shorter == AuthorLists(n - 1)
       IN  shorter \cup { Append(l, a) : l \in shorter, a \in AuthorPool }

\* Title and PubDate elements as records carry them (found: whether the
\* record has a PubDate element).
MetaPool ==
  { [title |-> <<"O","n"," ","X">>, pub_date |-> [found |-> TRUE, Year |-> <<"2","0","2","4">>, Month |-> <<"M","a","r">>, Day |-> <<"5">>]],
    [title |-> None,     pub_date |-> [found |-> TRUE, Year |-> <<"2","0","2","3">>, Month |-> Absent, Day |-> <<"9">>]],
    [title |-> Absent,   pub_date |-> [found |-> TRUE, Year |-> None, Month |-> <<"J","a","n">>, Day |-> Absent]],
    [title |-> <<"Y">>,    pub_date |-> [found |-> FALSE, Year |-> Absent, Month |-> Absent, Day |-> Absent]] }

Record(pmid, meta, authors) ==
  [pmid |-> pmid, title |-> meta.title, pub_date |-> meta.pub_date, authors |-> authors]

NoExport == [kind |-> "nothing", rows |-> <<>>]

\* The main run's variables while a function is called on its own.
MainIdle ==
  /\ pc = "idle"
  /\ retries = 0
  /\ attempt = 0
  /\ pmids = None
  /\ offset = 0
  /\ articles = <<>>
  /\ article_n = 0
  /\ results = <<>>
  /\ exported = NoExport
  /\ log = <<>>

ClassifyIdle ==
  /\ affiliation = None
  /\ is_company = FALSE
  /\ tier = "pending"
  /\ calls = 0

ParseIdle ==
  /\ article_elem = None
  /\ article_data = NoData
  /\ parse_kind = "pending"

\* ---------------------------------------------- the extractor on its own

ParseInputs ==
  { Record(pmid, meta, authors) :
      pmid \in {Absent, None, <<"7">>}, meta \in MetaPool, authors \in AuthorLists(MaxAuthors) }

ParseInit ==
  /\ article_elem \in ParseInputs
  /\ article_data = NoData
  /\ parse_kind = "pending"
  /\ ClassifyIdle
  /\ MainIdle

\* article_data = self._parse_article(article)
ParseCall ==
  /\ parse_kind = "pending"
  /\ \E set_order \in SetOrders(CompanyAffiliations(article_elem)) :
       /\ parse_kind' = ParseOutcome(article_elem, set_order).kind
       /\ article_data' = _parse_article(article_elem, set_order)
  /\ UNCHANGED <<article_elem, classify_vars, main_vars>>

ParseNext == ParseCall

SpecParse == ParseInit /\ [][ParseNext]_vars

\* ------------------------------------------------------- the run of main

MaxRetries == 2

MaxBatches == 2

MaxArticles == 2

batch_size == 50

\* int -> its decimal digits
RECURSIVE Decimal(_)
Decimal(n) ==
  LET digit == <<"0","1","2","3","4","5","6","7","8","9">>[(n % 10) + 1]
  IN  IF n < 10 THEN <<digit>> ELSE Append(Decimal(n \div 10), digit)

\* An id list of n ids, as esearch returns one.
IdList(n) == [ j \in 1..n |-> Decimal(j) ]

\* The lengths of id list tried: none, exactly one full batch, and for each
\* number of batches one that ends with a batch of a single id.
SearchLens ==
  {0, batch_size} \cup { (b - 1) * batch_size + 1 : b \in 1..MaxBatches }

\* pmid_list[offset:offset + batch_size], offset counted from 0
BatchPmids(pmid_list, start) ==
  SubSeq(pmid_list, start + 1,
         IF start + batch_size < Len(pmid_list) THEN start + batch_size ELSE Len(pmid_list))

SampleMeta ==
  [title |-> <<"O","n"," ","X">>, pub_date |-> [found |-> TRUE, Year |-> <<"2","0","2","4">>, Month |-> <<"M","a","r">>, Day |-> Absent]]

\* The records a response is made of, for the id the record answers.
RecordKinds(pmid) ==
  { Record(pmid, SampleMeta, <<JohnRoe, JaneDoe>>), \* an academic and a company author
    Record(Absent, SampleMeta, <<JaneDoe>>),        \* no PMID element
    Record(pmid, SampleMeta, <<EmptyLast>>) }       \* makes _parse_article raise

\* root.findall(".//PubmedArticle") of the responses efetch may give for a
\* batch: up to MaxArticles records, the n-th answering the batch's n-th id.
Responses(batch_pmids) ==
  LET most == IF Len(batch_pmids) < MaxArticles THEN Len(batch_pmids) ELSE MaxArticles
  IN  UNION { { r \in [1..n -> UNION { RecordKinds(batch_pmids[j]) : j \in 1..n }] :
                  \A j \in 1..n : r[j] \in RecordKinds(batch_pmids[j]) } : n \in 0..most }

MainInit ==
  /\ pc = "search"
  /\ retries \in 0..MaxRetries
  /\ attempt = 0
  /\ pmids = None
  /\ offset = 0
  /\ articles = <<>>
  /\ article_n = 0
  /\ results = <<>>
  /\ exported = NoExport
  /\ log = <<>>
  /\ ClassifyIdle
  /\ ParseIdle

fetch_unchanged == <<retries, pmids, exported, classify_vars, parse_vars>>

\* search: an attempt gets a response and returns its id list.
SearchOk ==
  /\ pc = "search"
  /\ attempt < retries
  /\ \E n \in SearchLens : pmids' = IdList(n)
  /\ pc' = "main"
  /\ UNCHANGED <<retries, attempt, offset, articles, article_n, results, exported, log,
                 classify_vars, parse_vars>>

\* search: an attempt fails with RequestException or JSONDecodeError; the
\* last one returns [].
SearchFail ==
  /\ pc = "search"
  /\ attempt < retries
  /\ IF attempt < retries - 1
       THEN attempt' = attempt + 1 /\ UNCHANGED <<pc, pmids>>
       ELSE pmids' = <<>> /\ pc' = "main" /\ UNCHANGED attempt
  /\ UNCHANGED <<retries, offset, articles, article_n, results, exported, log,
                 classify_vars, parse_vars>>

\* search: range(self.retries) is empty, the loop body never runs and the
\* function falls off its end.
SearchNoAttempt ==
  /\ pc = "search"
  /\ attempt >= retries
  /\ pmids' = None
  /\ pc' = "main"
  /\ UNCHANGED <<retries, attempt, offset, articles, article_n, results, exported, log,
                 classify_vars, parse_vars>>

\* main: len(pmids), then fetch_article_details(pmids) up to its first request.
MainFetch ==
  /\ pc = "main"
  /\ IF pmids = None
       THEN pc' = "crashed" /\ UNCHANGED <<attempt, offset, results>>
       ELSE /\ results' = <<>>
            /\ offset' = 0
            /\ attempt' = 0
            /\ pc' = IF pmids = <<>> \/ retries = 0 THEN "export" ELSE "fetch"
  /\ UNCHANGED <<articles, article_n, log>>
  /\ UNCHANGED fetch_unchanged

\* The batch loop moves on from the batch at offset: the next batch's first
\* attempt, or return results.
NextBatch ==
  /\ offset' = offset + batch_size
  /\ attempt' = 0
  /\ pc' = IF offset + batch_size < Len(pmids) THEN "fetch" ELSE "export"

\* History: what a response's records should add to the result list, in
\* document order (the sample records of a response hold one company text
\* each, so the set's order is the only one).
ResultOf(outcome) == IF outcome.kind = "result" THEN <<outcome.data>> ELSE <<>>

RECURSIVE Emitted(_)
Emitted(arts) ==
  IF arts = <<>> THEN <<>>
  ELSE ResultOf(ParseOutcome(Head(arts),
                             CHOOSE o \in SetOrders(CompanyAffiliations(Head(arts))) : TRUE))
         \o Emitted(Tail(arts))

\* fetch: an attempt gets a response that parses as XML.
FetchOk ==
  /\ pc = "fetch"
  /\ attempt < retries
  /\ articles' \in Responses(BatchPmids(pmids, offset))
  /\ article_n' = 1
  /\ pc' = "parse"
  /\ UNCHANGED <<attempt, offset, results, log>>
  /\ UNCHANGED fetch_unchanged

\* Variant: giving a batch up returns from fetch_article_details at once.
FetchFailAbort ==
  /\ pc = "fetch"
  /\ attempt < retries
  /\ IF attempt < retries - 1
       THEN attempt' = attempt + 1 /\ UNCHANGED <<pc, offset, log>>
       ELSE /\ pc' = "export"
            /\ UNCHANGED <<attempt, offset>>
            /\ log' = Append(log, [start |-> offset, ok |-> FALSE,
                                    requests |-> attempt + 1, emitted |-> <<>>])
  /\ UNCHANGED <<articles, article_n, results>>
  /\ UNCHANGED fetch_unchanged

\* fetch: an attempt fails with RequestException or ParseError; after the
\* last one the batch is given up.
FetchFail ==
  /\ pc = "fetch"
  /\ attempt < retries
  /\ IF attempt < retries - 1
       THEN attempt' = attempt + 1 /\ UNCHANGED <<pc, offset, log>>
       ELSE /\ NextBatch
            /\ log' = Append(log, [start |-> offset, ok |-> FALSE,
                                    requests |-> attempt + 1, emitted |-> <<>>])
  /\ UNCHANGED <<articles, article_n, results>>
  /\ UNCHANGED fetch_unchanged

\* if article_data and article_data['has_pharma_author']
Emits(data) == data # NoData /\ data.has_pharma_author

\* if ...: results.append(article_data)
AppendIfEmits(list, data) == IF Emits(data) THEN Append(list, data) ELSE list

\* Variant: a record that makes _parse_article raise ends the reading of the
\* response.
FetchParseAbortOnRaise ==
  /\ pc = "parse"
  /\ article_n <= Len(articles)
  /\ \E set_order \in SetOrders(CompanyAffiliations(articles[article_n])) :
       LET outcome == ParseOutcome(articles[article_n], set_order)
       IN  /\ results' = IF Emits(outcome.data) THEN Append(results, outcome.data) ELSE results
           /\ article_n' = IF outcome.kind = "raised" THEN Len(articles) + 1 ELSE article_n + 1
  /\ UNCHANGED <<pc, attempt, offset, articles, log>>
  /\ UNCHANGED fetch_unchanged

\* Variant: a result is put at the front of the list.
FetchParsePrepend ==
  /\ pc = "parse"
  /\ article_n <= Len(articles)
  /\ \E set_order \in SetOrders(CompanyAffiliations(articles[article_n])) :
       LET parsed == _parse_article(articles[article_n], set_order)
       IN  results' = IF Emits(parsed) THEN <<parsed>> \o results ELSE results
  /\ article_n' = article_n + 1
  /\ UNCHANGED <<pc, attempt, offset, articles, log>>
  /\ UNCHANGED fetch_unchanged

\* fetch: one turn of the loop over the response's articles.
FetchParse ==
  /\ pc = "parse"
  /\ article_n <= Len(articles)
  /\ \E set_order \in SetOrders(CompanyAffiliations(articles[article_n])) :
       results' = AppendIfEmits(results, _parse_article(articles[article_n], set_order))
  /\ article_n' = article_n + 1
  /\ UNCHANGED <<pc, attempt, offset, articles, log>>
  /\ UNCHANGED fetch_unchanged

\* Variant: no break, the attempt loop goes on after a success.
FetchBreakNoBreak ==
  /\ pc = "parse"
  /\ article_n > Len(articles)
  /\ IF attempt < retries - 1
       THEN attempt' = attempt + 1 /\ pc' = "fetch" /\ UNCHANGED offset
       ELSE NextBatch
  /\ log' = Append(log, [start |-> offset, ok |-> TRUE,
                          requests |-> attempt + 1, emitted |-> Emitted(articles)])
  /\ UNCHANGED <<articles, article_n, results>>
  /\ UNCHANGED fetch_unchanged

\* fetch: the articles are done: sleep, break.
FetchBreak ==
  /\ pc = "parse"
  /\ article_n > Len(articles)
  /\ NextBatch
  /\ log' = Append(log, [start |-> offset, ok |-> TRUE,
                          requests |-> attempt + 1, emitted |-> Emitted(articles)])
  /\ UNCHANGED <<articles, article_n, results>>
  /\ UNCHANGED fetch_unchanged

fieldnames ==
  {"pmid", "title", "pub_date", "pharma_authors", "company_affiliations", "corresponding_email"}

\* main: export_to_csv(articles, args.file) and the closing line.
Export ==
  /\ pc = "export"
  /\ \E to_file \in BOOLEAN :
       exported' =
         IF results = <<>> THEN [kind |-> "notice", rows |-> <<>>]
         ELSE [ kind |-> IF to_file THEN "file" ELSE "console",
                rows |-> [ n \in DOMAIN results |-> [ f \in fieldnames |-> results[n][f] ] ] ]
  /\ pc' = "done"
  /\ UNCHANGED <<retries, attempt, pmids, offset, articles, article_n, results, log,
                 classify_vars, parse_vars>>

Next ==
  \/ SearchOk
  \/ SearchFail
  \/ SearchNoAttempt
  \/ MainFetch
  \/ FetchOk
  \/ FetchFail
  \/ FetchParse
  \/ FetchBreak
  \/ Export

Spec == MainInit /\ [][Next]_vars

\* -------------------------------------------- properties of the run of main

\* The batches fetch_article_details goes through: their offsets.
BatchStarts == { s \in 0..Len(pmids) : s % batch_size = 0 /\ s < Len(pmids) }

RECURSIVE LoggedResults(_)
\* What the finished batches of a history should have added, in batch order.
LoggedResults(entries) ==
  IF entries = <<>> THEN <<>>
  ELSE (IF Head(entries).ok THEN Head(entries).emitted ELSE <<>>) \o LoggedResults(Tail(entries))

IsPrefix(s, t) == Len(s) <= Len(t) /\ SubSeq(t, 1, Len(s)) = s

\* s occurs in t as a block
OccursIn(s, t) ==
  \E p \in 0..(Len(t) - Len(s)) : SubSeq(t, p + 1, p + Len(s)) = s

Returned == pc \in {"export", "done"}

\* C3: a batch whose attempts 1..N-1 fail and whose attempt N (N within the
\* configured retries) succeeds is not reported as empty: the returned list
\* holds the company-flagged results of the successful response; and once a
\* batch has succeeded no further request is made for it.
C3_RetryThenSuccess ==
  /\ \A n \in DOMAIN log : log[n].requests \in 1..retries
  /\ Returned => \A n \in DOMAIN log : log[n].ok => OccursIn(log[n].emitted, results)
  /\ pc = "fetch" => \A n \in DOMAIN log : log[n].start # offset
  /\ \A n, m \in DOMAIN log : n # m => log[n].start # log[m].start

\* A run in which a batch succeeded on its last allowed attempt, after
\* failures, and its results were returned.
C3_Witness ==
  /\ pc = "export"
  /\ retries >= 2
  /\ \E n \in DOMAIN log :
       log[n].ok /\ log[n].requests = retries /\ log[n].emitted # <<>>

\* C4: a batch that fails on every attempt does not end the call: it adds
\* nothing, every batch is still gone through in order, a batch is given up
\* only after its own full count of requests, and the call returns the
\* results of the batches that succeeded.  The only way the run ends early
\* is search returning None.
C4_FailedBatchIsSkipped ==
  /\ pc = "crashed" => pmids = None
  /\ (Returned /\ retries > 0) =>
       /\ { log[n].start : n \in DOMAIN log } = BatchStarts
       /\ \A n \in DOMAIN log : log[n].start = (n - 1) * batch_size
       /\ \A n \in DOMAIN log : ~log[n].ok => log[n].requests = retries
       /\ results = LoggedResults(log)

\* A run in which a batch was given up and a later batch used its full
\* count of requests and still added results.
C4_Witness ==
  /\ pc = "export"
  /\ retries >= 2
  /\ \E n, m \in DOMAIN log :
       /\ n < m
       /\ ~log[n].ok
       /\ log[m].ok /\ log[m].requests = retries /\ log[m].emitted # <<>>
  /\ results # <<>>

\* C5: search returns a sequence of ids whatever the retry count and the
\* failures, so that main goes on to fetch and export.
C5_SearchReturnsIds ==
  pc # "search" => (pmids # None /\ pc # "crashed")

\* C6: a record on which _parse_article raises, or that has no PMID, is
\* skipped alone: while a response is read the result list is what the
\* earlier batches added followed by the results of the response's records
\* read so far, the skipped ones left out and the others kept.
C6_RecordSkippedAlone ==
  pc = "parse" =>
    /\ article_n \in 1..(Len(articles) + 1)
    /\ results = LoggedResults(log) \o Emitted(SubSeq(articles, 1, article_n - 1))

KindOf(article) ==
  ParseOutcome(article, CHOOSE o \in SetOrders(CompanyAffiliations(article)) : TRUE).kind

\* A response whose first record raised and whose second record, read after
\* it, is the last entry of the result list.
C6_Witness ==
  /\ pc = "parse"
  /\ article_n = 3
  /\ KindOf(articles[1]) = "raised"
  /\ KindOf(articles[2]) = "result"
  /\ results # <<>>
  /\ results[Len(results)].pmid = articles[2].pmid

\* What one step may do to the result list.
C10_Step ==
  /\ pc = "fetch" => results' = results
  /\ pc = "parse" =>
       /\ IsPrefix(results, results')
       /\ Len(results') <= Len(results) + 1
       /\ pc' = "parse" => article_n' = article_n + 1
       /\ Len(results') = Len(results) + 1 =>
            /\ article_n' = article_n + 1
            /\ results'[Len(results')].pmid = articles[article_n].pmid
  /\ pc = "export" => results' = results

\* No record's result is in the list twice.
C10_NoDuplicate ==
  \A a, b \in DOMAIN results : a # b => results[a].pmid # results[b].pmid

\* C10: retrying neither duplicates nor half-processes: an attempt, failed
\* or not, leaves the result list as it is until its response is read; each
\* record of a response is read once, in document order, and adds at most
\* its own result at the end of the list; the list never loses or reorders
\* entries; no record's result is in it twice.
C10_AppendOnly == []C10_NoDuplicate /\ [][C10_Step]_vars

\* A response being read on a retry, after an earlier batch, with results
\* from both.
C10_Witness ==
  /\ pc = "parse"
  /\ attempt >= 1
  /\ log # <<>>
  /\ LoggedResults(log) # <<>>
  /\ Len(results) > Len(LoggedResults(log))

\* --------------------------------------------- the classifier on its own

MaxTokens == 3

MaxCalls == 2

\* Pieces affiliation texts are put together from.
AffTokens ==
  { <<"A","c","m","e">>, <<" ">>, <<",">>, <<"C","o","r","p">>, <<"I","n","c">>,
    <<"U","n","i">>, <<"v","e","r","s","i","t","y">>, <<"9">>, <<DotlessI,"n","c">> }

RECURSIVE Texts(_)
Texts(n) ==
  IF n = 0 THEN { <<>> }
  ELSE LET shorter == Texts(n - 1)
       IN  shorter \cup { t \o w : t \in shorter, w \in AffTokens }

\* What a caller may pass: no text, or a text of up to MaxTokens pieces.
AffInputs == {None} \cup Texts(MaxTokens)

\* A later call's argument.
AffAgain == {None} \cup Texts(1) \cup { <<"A","c","m","e"," ","C","o","r","p">>, <<"U","n","i","v","e","r","s","i","t","y"," ","o","f"," ","A","c","m","e"," ","I","n","c">> }

ClassifyInit ==
  /\ affiliation \in AffInputs
  /\ is_company = FALSE
  /\ tier = "pending"
  /\ calls = 0
  /\ ParseIdle
  /\ MainIdle

\* self._is_company_affiliation(affiliation)
ClassifyCall ==
  /\ tier = "pending"
  /\ tier' = ClassifyTier(affiliation)
  /\ is_company' = _is_company_affiliation(affiliation)
  /\ calls' = calls + 1
  /\ UNCHANGED <<affiliation, parse_vars, main_vars>>

\* The caller moves on to its next affiliation.
ClassifyAgain ==
  /\ tier # "pending"
  /\ calls < MaxCalls
  /\ affiliation' \in AffAgain
  /\ tier' = "pending"
  /\ UNCHANGED <<is_company, calls, parse_vars, main_vars>>

ClassifyNext == ClassifyCall \/ ClassifyAgain

SpecClassify == ClassifyInit /\ [][ClassifyNext]_vars


\* --------------------------------------------- properties of the classifier

AcmeCorp == <<"A","c","m","e"," ","C","o","r","p">>

HasKeyword(keywords, text) == \E n \in DOMAIN keywords : Contains(keywords[n], text)

\* C2: the classifier returns false for an empty or absent text and for a
\* text whose lower-case form holds an academic keyword, whatever company
\* keywords it holds too; true for a text with no academic keyword and a
\* company keyword; false when no keyword and no pattern matches; and at
\* every call the result is this one function of the text alone.
C2_Classification ==
  tier # "pending" =>
    LET absent   == affiliation = None \/ affiliation = <<>>
        lowered  == IF absent THEN <<>> ELSE Lower(affiliation)
        academic == HasKeyword(ACADEMIC_KEYWORDS, lowered)
        company  == HasKeyword(COMPANY_KEYWORDS, lowered)
        pattern  == \E p \in DOMAIN company_patterns : PatternSearch(company_patterns[p], lowered)
    IN  /\ (absent \/ academic) => ~is_company
        /\ (~absent /\ ~academic /\ company) => is_company
        /\ (~absent /\ ~academic /\ ~company /\ ~pattern) => ~is_company
        /\ is_company = (~absent /\ ~academic /\ (company \/ pattern))

\* A later call on a text with an academic and a company keyword.
C2_Witness ==
  /\ calls >= 2
  /\ tier = "academic"
  /\ HasKeyword(COMPANY_KEYWORDS, Lower(affiliation))
  /\ ~is_company

\* C9 as stated: "Acme Corp" holds no company keyword and is decided, true,
\* by the pattern tier.
C9_AcmeCorpByPattern ==
  (tier # "pending" /\ affiliation = AcmeCorp) => (tier = "pattern" /\ is_company)

\* C9 amended: "Acme Corp" is decided, true, by the company-keyword tier,
\* its lower-case form holding "corp"; the pattern tier decides only texts
\* with a letter that lower() leaves and the case-insensitive patterns fold,
\* here the dotless i.
C9_AcmeCorpByKeyword ==
  tier # "pending" =>
    /\ affiliation = AcmeCorp => (tier = "keyword" /\ is_company)
    /\ tier = "pattern" => (is_company /\ DotlessI \in Range(affiliation))

C9_Witness ==
  /\ affiliation = AcmeCorp
  /\ tier = "keyword"
  /\ is_company

\* ---------------------------------------------- properties of the extractor

Parsed == parse_kind # "pending"

HasCompanyAffiliation(author) ==
  \E n \in DOMAIN author.affiliations :
    HasText(author.affiliations[n]) /\ _is_company_affiliation(author.affiliations[n])

\* The authors the loop does not skip.
Named(authors) ==
  LET HasLastName(author) == author.LastName # Absent
  IN  SelectSeq(authors, HasLastName)

\* C1 as stated: a record with a PMID element is emitted if and only if some
\* author of it, with or without LastName and ForeName, has a company
\* affiliation.
C1_EmittedIffAnyCompanyAuthor ==
  (Parsed /\ article_elem.pmid # Absent) =>
    (Emits(article_data) <=>
       \E n \in DOMAIN article_elem.authors : HasCompanyAffiliation(article_elem.authors[n]))

\* C1 amended: a record with a PMID element is emitted if and only if some
\* author that has a LastName element has a company affiliation, and no such
\* company author has a LastName element without text and no ForeName.
C1_EmittedIffNamedCompanyAuthor ==
  (Parsed /\ article_elem.pmid # Absent) =>
    LET named == Named(article_elem.authors)
    IN  Emits(article_data) <=>
          /\ \E n \in DOMAIN named : HasCompanyAffiliation(named[n])
          /\ ~\E n \in DOMAIN named :
                /\ HasCompanyAffiliation(named[n])
                /\ named[n].LastName = None
                /\ named[n].ForeName = Absent

\* An emitted record with a company author that has no LastName element and
\* a company author that has no ForeName element.
C1_Witness ==
  /\ Parsed
  /\ Emits(article_data)
  /\ \E n, m \in DOMAIN article_elem.authors :
       /\ article_elem.authors[n].LastName = Absent
       /\ HasCompanyAffiliation(article_elem.authors[n])
       /\ article_elem.authors[m].LastName \notin {Absent, None}
       /\ article_elem.authors[m].ForeName = Absent
       /\ HasCompanyAffiliation(article_elem.authors[m])

RECURSIVE AffiliationTexts(_)
\* The affiliation texts of some authors, in document order.
AffiliationTexts(authors) ==
  IF authors = <<>> THEN <<>>
  ELSE SelectSeq(Head(authors).affiliations, HasText) \o AffiliationTexts(Tail(authors))

\* The first e-mail-shaped match in a list of texts; empty if none.
FirstEmail(texts) ==
  LET hits == { n \in DOMAIN texts : EmailSearch(texts[n]) # None }
  IN  IF hits = {} THEN <<>> ELSE EmailSearch(texts[Min(hits)])

\* C7 as stated: the contact e-mail is the first match over the affiliation
\* texts of all authors of the record.
C7_EmailOverAllAuthors ==
  parse_kind = "result" =>
    article_data.corresponding_email = FirstEmail(AffiliationTexts(article_elem.authors))

\* C7 amended: the contact e-mail is the first match over the affiliation
\* texts, in document order, of the authors that have a LastName element,
\* company authors or not; empty if none of them holds one; a later match
\* never replaces it.
C7_EmailOverNamedAuthors ==
  parse_kind = "result" =>
    article_data.corresponding_email = FirstEmail(AffiliationTexts(Named(article_elem.authors)))

\* An emitted record whose e-mail comes from an author without a company
\* affiliation, a later author holding another address.
C7_Witness ==
  /\ parse_kind = "result"
  /\ Len(article_elem.authors) >= 2
  /\ ~HasCompanyAffiliation(article_elem.authors[1])
  /\ article_elem.authors[1].LastName # Absent
  /\ FirstEmail(AffiliationTexts(<<article_elem.authors[1]>>)) = article_data.corresponding_email
  /\ FirstEmail(AffiliationTexts(<<article_elem.authors[2]>>))
       \notin {<<>>, article_data.corresponding_email}

\* ForeName, a blank, LastName; LastName alone without a ForeName element.
DisplayName(author) ==
  IF author.ForeName = Absent THEN author.LastName
  ELSE Str(author.ForeName) \o <<" ">> \o Str(author.LastName)

RECURSIVE CompanyAuthorNames(_)
CompanyAuthorNames(authors) ==
  IF authors = <<>> THEN <<>>
  ELSE (IF Head(authors).LastName # Absent /\ HasCompanyAffiliation(Head(authors))
          THEN <<DisplayName(Head(authors))>> ELSE <<>>)
       \o CompanyAuthorNames(Tail(authors))

====
